---- MODULE Spec2Model ----
(***************************************************************************)
(* A model of daily_slack_avatar.py: the credential store kept in          *)
(* .slack_config.json, token resolution, the interactive setup flows, the  *)
(* sequential upload batch with its dead-credential cleanup, random asset  *)
(* selection and the exit codes of main().                                *)
(*                                                                         *)
(* Text typed by the user and file names are sequences of one-character    *)
(* strings, so that strip(), lower() and endswith() are computed.  Tokens  *)
(* are opaque strings.  A Python dict is a sequence of [key, value]        *)
(* records with distinct keys, in insertion order.                         *)
(***************************************************************************)
EXTENDS Integers, Sequences, FiniteSets, TLC

VARIABLES
    file,          \* CONFIG_FILE: <<>> when missing, <<config>> when present
    dirs,          \* the foreground and background folders
    env,           \* os.environ.get("SLACK_USER_TOKEN"), "" when unset
    args,          \* the parsed command line of the last run
    pc,            \* position of the running call
    caller,        \* who called prompt_for_slack_token / upload_to_slack
    tokens,        \* prompt_for_slack_token's local dict
    slack_tokens,  \* upload_to_slack's resolved dict
    idx,           \* number of items of slack_tokens already iterated
    results,       \* upload_to_slack's results list
    calls,         \* users_setPhoto calls issued in this batch: <<alias, token>>
    picked,        \* foreground_image / background_image of the current run
    invoked,       \* functions main() has called in the last run, in order
    error,         \* the exception that ended the last run, "" when none
    exitCode       \* exit status of the last run, -1 while running

vars == <<file, dirs, env, args, pc, caller, tokens, slack_tokens, idx,
          results, calls, picked, invoked, error, exitCode>>

-----------------------------------------------------------------------------
(* Strings *)

Str_default == <<"d", "e", "f", "a", "u", "l", "t">>
Str_work == <<"w", "o", "r", "k">>
Str_home == <<"h", "o", "m", "e">>
Str_y == <<"y">>
Str_png == <<".", "p", "n", "g">>

UpperToLower ==
    ("P" :> "p") @@ ("N" :> "n") @@ ("G" :> "g") @@ ("Y" :> "y") @@
    ("B" :> "b") @@ ("E" :> "e") @@ ("S" :> "s")

\* str.lower()
Lower(s) ==
    [i \in DOMAIN s |-> IF s[i] \in DOMAIN UpperToLower THEN UpperToLower[s[i]] ELSE s[i]]

IsSpace(c) == c \in {" ", "\t"}

RECURSIVE LStrip(_)
LStrip(s) ==
    IF s /= <<>> /\ IsSpace(Head(s)) THEN LStrip(Tail(s)) ELSE s

RECURSIVE RStrip(_)
RStrip(s) ==
    IF s /= <<>> /\ IsSpace(s[Len(s)]) THEN RStrip(SubSeq(s, 1, Len(s) - 1)) ELSE s

\* str.strip()
Strip(s) == RStrip(LStrip(s))

\* str.endswith(suffix)
EndsWith(s, suffix) ==
    /\ Len(s) >= Len(suffix)
    /\ SubSeq(s, Len(s) - Len(suffix) + 1, Len(s)) = suffix

-----------------------------------------------------------------------------
(* Python dict, insertion-ordered *)

EmptyDict == <<>>

DictKeys(d) == [i \in DOMAIN d |-> d[i].key]

DictHas(d, k) == \E i \in DOMAIN d : d[i].key = k

DictGet(d, k) == d[CHOOSE i \in DOMAIN d : d[i].key = k].value

\* d[k] = v : an existing key keeps its position
DictSet(d, k, v) ==
    IF DictHas(d, k)
    THEN [i \in DOMAIN d |-> IF d[i].key = k THEN [key |-> k, value |-> v] ELSE d[i]]
    ELSE Append(d, [key |-> k, value |-> v])

\* del d[k]
DictDel(d, k) == SelectSeq(d, LAMBDA e : e.key /= k)

-----------------------------------------------------------------------------
(* The credential store *)

NoFile == <<>>

FileExists(f) == f /= NoFile

\* json.load(open(CONFIG_FILE)): a dict with string keys round-trips unchanged,
\* key order included
LoadConfig(f) == f[1]

HasDefault(config) == "default" \in DOMAIN config

\* The tokens argument of save_slack_tokens: a str or a dict
StrArg(t) == [kind |-> "str", val |-> t]
DictArg(d) == [kind |-> "dict", val |-> d]

RECURSIVE SaveProfilesFrom(_, _, _)
\* for alias, token in tokens.items(): config['profiles'][alias] = {'token': token}
SaveProfilesFrom(profiles, toks, i) ==
    IF i > Len(toks) THEN profiles
    ELSE SaveProfilesFrom(
            DictSet(profiles, toks[i].key, [token |-> toks[i].value]), toks, i + 1)

\* Faulty variant: the batch branch elects a default on every save, without the
\* "'default' not in config" test
SavedConfig_ReelectsDefault(f, toks, alias) ==
    LET config0 == IF FileExists(f) THEN LoadConfig(f) ELSE [profiles |-> EmptyDict]
        config == IF "profiles" \in DOMAIN config0
                  THEN config0
                  ELSE [profiles |-> EmptyDict] @@ config0
    IN  IF toks.kind = "str" /\ alias /= <<>>
        THEN LET profiles == DictSet(config.profiles, alias, [token |-> toks.val])
             IN  IF Len(profiles) = 1
                 THEN [profiles |-> profiles, default |-> alias]
                 ELSE [config EXCEPT !.profiles = profiles]
        ELSE IF toks.kind = "dict"
        THEN LET profiles == SaveProfilesFrom(config.profiles, toks.val, 1)
             IN  IF Len(toks.val) > 0
                 THEN [profiles |-> profiles, default |-> toks.val[1].key]
                 ELSE [config EXCEPT !.profiles = profiles]
        ELSE config

\* The config save_slack_tokens(tokens, alias) builds before writing it;
\* alias <<>> stands for None
SavedConfig(f, toks, alias) ==
    LET config0 == IF FileExists(f) THEN LoadConfig(f) ELSE [profiles |-> EmptyDict]
        config == IF "profiles" \in DOMAIN config0
                  THEN config0
                  ELSE [profiles |-> EmptyDict] @@ config0
    IN  IF toks.kind = "str" /\ alias /= <<>>
        THEN LET profiles == DictSet(config.profiles, alias, [token |-> toks.val])
                 withProfile == [config EXCEPT !.profiles = profiles]
             IN  IF Len(profiles) = 1
                 THEN [profiles |-> profiles, default |-> alias]
                 ELSE withProfile
        ELSE IF toks.kind = "dict"
        THEN LET profiles == SaveProfilesFrom(config.profiles, toks.val, 1)
                 withProfiles == [config EXCEPT !.profiles = profiles]
             IN  IF ~HasDefault(config) /\ Len(profiles) > 0
                 THEN [profiles |-> profiles, default |-> DictKeys(profiles)[1]]
                 ELSE withProfiles
        ELSE config

\* save_slack_tokens: the file afterwards; a failing open/write leaves it as it was
SaveSlackTokens(f, toks, alias, ioOk) ==
    IF ioOk THEN <<SavedConfig(f, toks, alias)>> ELSE f

RECURSIVE RequestedFrom(_, _, _, _)
\* for alias in profile_aliases: if alias in profiles: tokens[alias] = profiles[alias]['token']
RequestedFrom(toks, profiles, profile_aliases, i) ==
    IF i > Len(profile_aliases) THEN toks
    ELSE LET alias == profile_aliases[i]
         IN  RequestedFrom(
                IF DictHas(profiles, alias)
                THEN DictSet(toks, alias, DictGet(profiles, alias).token)
                ELSE toks,
                profiles, profile_aliases, i + 1)

RECURSIVE AllProfilesFrom(_, _, _)
\* for alias, profile in profiles.items(): tokens[alias] = profile['token']
AllProfilesFrom(toks, profiles, i) ==
    IF i > Len(profiles) THEN toks
    ELSE AllProfilesFrom(
            DictSet(toks, profiles[i].key, profiles[i].value.token), profiles, i + 1)

\* get_slack_tokens(profile_aliases); <<>> stands for None
GetSlackTokens(f, env_token, profile_aliases) ==
    LET fromEnv == IF env_token /= ""
                   THEN DictSet(EmptyDict, Str_default, env_token)
                   ELSE EmptyDict
    IN  IF ~FileExists(f) THEN fromEnv
        ELSE LET config == LoadConfig(f)
                 profiles == IF "profiles" \in DOMAIN config
                             THEN config.profiles ELSE EmptyDict
             IN  IF profile_aliases /= <<>>
                 THEN RequestedFrom(fromEnv, profiles, profile_aliases, 1)
                 ELSE AllProfilesFrom(fromEnv, profiles, 1)

DeadCredentialErrors == {"invalid_auth", "not_authed", "token_revoked", "missing_scope"}

\* Faulty variant: the cleanup empties profiles instead of deleting one entry
RemoveInvalidToken_ClearsProfiles(f, alias, ioOk) ==
    IF ioOk /\ FileExists(f)
    THEN LET config == LoadConfig(f)
         IN  IF "profiles" \in DOMAIN config /\ DictHas(config.profiles, alias)
             THEN <<[config EXCEPT !.profiles = EmptyDict]>>
             ELSE f
    ELSE f

\* Faulty variant: the cleanup also drops the default field when it names the alias
RemoveInvalidToken_DropsDefault(f, alias, ioOk) ==
    IF ioOk /\ FileExists(f)
    THEN LET config == LoadConfig(f)
         IN  IF "profiles" \in DOMAIN config /\ DictHas(config.profiles, alias)
             THEN IF HasDefault(config) /\ config.default = alias
                  THEN <<[profiles |-> DictDel(config.profiles, alias)]>>
                  ELSE <<[config EXCEPT !.profiles = DictDel(config.profiles, alias)]>>
             ELSE f
    ELSE f

\* The cleanup in upload_to_slack's SlackApiError handler: the file afterwards
RemoveInvalidToken(f, alias, ioOk) ==
    IF ioOk /\ FileExists(f)
    THEN LET config == LoadConfig(f)
         IN  IF "profiles" \in DOMAIN config /\ DictHas(config.profiles, alias)
             THEN <<[config EXCEPT !.profiles = DictDel(config.profiles, alias)]>>
             ELSE f
    ELSE f

-----------------------------------------------------------------------------
(* Asset folders *)

ImageNames == {<<"a">> \o Str_png, <<"B", ".", "P", "N", "G">>}
OtherNames == {<<"p", "n", "g">>}
FileNames == ImageNames \cup OtherNames

NoDir == [exists |-> FALSE, entries |-> {}]

DirStates == {NoDir} \cup {[exists |-> TRUE, entries |-> e] : e \in SUBSET FileNames}

\* Faulty variant: the extension is matched without lower()
ImageFiles_CaseSensitive(d) == {f \in d.entries : EndsWith(f, Str_png)}

\* [f for f in os.listdir(path) if f.lower().endswith('.png')]
ImageFiles(d) == {f \in d.entries : EndsWith(Lower(f), Str_png)}

\* get_random_image: the folder afterwards
DirAfterPick(d) == IF d.exists THEN d ELSE [exists |-> TRUE, entries |-> {}]

\* get_random_image: the paths random.choice can return; none when it raises
PickChoices(d) == IF d.exists THEN ImageFiles(d) ELSE {}

-----------------------------------------------------------------------------
(* Inputs *)

MaxRequested == 2

Aliases == {Str_default, Str_work, Str_home}

\* --profiles lists: nargs='+' gives at least one alias
RECURSIVE SeqsUpTo(_, _)
SeqsUpTo(S, n) ==
    IF n = 0 THEN {<<>>}
    ELSE LET shorter == SeqsUpTo(S, n - 1)
         IN  shorter \cup {Append(q, x) : q \in shorter, x \in S}

ErrorCodes == DeadCredentialErrors \cup {"bad_image"}

Outcomes ==
    {[kind |-> k, error |-> ""] : k \in {"ok", "IOError", "NetworkError"}}
    \cup {[kind |-> k, error |-> c] : k \in {"not_ok", "SlackApiError"}, c \in ErrorCodes}

ParsedArgs(setup, add, list, slack, upload, profiles) ==
    [setup_slack |-> setup, add_profiles |-> add, list_profiles |-> list,
     slack |-> slack, upload |-> upload, profiles |-> profiles]

NoArgs == ParsedArgs(FALSE, FALSE, FALSE, FALSE, FALSE, <<>>)

\* Command lines: each flag alone, the management flags together, and
\* --upload with every --profiles list
CommandLines(requests) ==
    {ParsedArgs(TRUE, FALSE, FALSE, FALSE, FALSE, <<>>),
     ParsedArgs(FALSE, TRUE, FALSE, FALSE, FALSE, <<>>),
     ParsedArgs(FALSE, FALSE, TRUE, FALSE, FALSE, <<>>),
     ParsedArgs(TRUE, TRUE, TRUE, FALSE, TRUE, <<>>),
     ParsedArgs(FALSE, TRUE, TRUE, TRUE, FALSE, <<>>),
     NoArgs,
     ParsedArgs(FALSE, FALSE, FALSE, TRUE, FALSE, <<>>)}
    \cup {ParsedArgs(FALSE, FALSE, FALSE, FALSE, TRUE, r) : r \in requests}

Padded(s) == <<" ">> \o s \o <<" ">>

\* What the user and the environment supply in the uploader's specification:
\* three aliases ("default" through the environment or the single setup's
\* fallback), every --profiles list, one stored token value and another in
\* the environment
UploadInputs ==
    [aliases |-> {<<>>, Str_work, Padded(Str_home)},
     tokens  |-> {"", "xoxp-1"},
     answers |-> {Str_y, <<"n">>},
     envs    |-> {"", "xoxp-env"},
     argv    |-> CommandLines(SeqsUpTo(Aliases, MaxRequested))]

\* ... in the credential store's specification: two token values, every
\* spelling of the answers, uploads to all profiles
StoreInputs ==
    [aliases |-> {<<>>, <<" ">>, Str_work, Padded(Str_work), Str_home, Str_default},
     tokens  |-> {"", "xoxp-1", "xoxp-2"},
     answers |-> {Str_y, <<" ", "Y">>, <<"n">>, <<>>, <<"y", "e", "s">>},
     envs    |-> {""},
     argv    |-> CommandLines({<<>>})]

\* ... in the specification of main: one alias, one token
MainInputs ==
    [aliases |-> {<<>>, Padded(Str_work)},
     tokens  |-> {"", "xoxp-1"},
     answers |-> {Str_y, <<"n">>},
     envs    |-> {"", "xoxp-env"},
     argv    |-> CommandLines({<<>>, <<Str_work>>})]

-----------------------------------------------------------------------------
(* prompt_for_slack_token *)

\* input(...).lower().strip() == 'y'
SaysYes(answer) == Strip(Lower(answer)) = Str_y

\* The file after the save question of prompt_for_slack_token
FileAfterPrompt(f, toks, answer, ioOk) ==
    IF SaysYes(answer) THEN SaveSlackTokens(f, DictArg(toks), <<>>, ioOk) ELSE f

\* Faulty variant: the save question is asked although nothing was collected
FileAfterSetup_NoAbort(f, toks, answer, ioOk) == FileAfterPrompt(f, toks, answer, ioOk)

\* "if not tokens: return None" (the single flow's "if not token") comes before
\* the save question
FileAfterSetup(f, toks, answer, ioOk) ==
    IF toks = EmptyDict THEN f ELSE FileAfterPrompt(f, toks, answer, ioOk)

\* input(...).strip() or "default"
SingleAlias(raw) == IF Strip(raw) /= <<>> THEN Strip(raw) ELSE Str_default

NothingPicked == [foreground |-> <<>>, background |-> <<>>]

\* The process ends with this status: its environment and locals are gone
Exit(status, exc) ==
    /\ pc' = "idle"
    /\ exitCode' = status
    /\ error' = exc
    /\ env' = ""
    /\ caller' = "main"
    /\ tokens' = EmptyDict
    /\ slack_tokens' = EmptyDict
    /\ idx' = 0
    /\ results' = <<>>
    /\ calls' = <<>>
    /\ picked' = NothingPicked

\* What a step that stays inside the process leaves alone
Running == UNCHANGED <<env, exitCode, error>>

\* One turn of the while loop with a non-empty alias
PromptPair(raw, token) ==
    /\ pc = "prompt"
    /\ Strip(raw) /= <<>>
    /\ tokens' = IF token = "" THEN tokens ELSE DictSet(tokens, Strip(raw), token)
    /\ Running
    /\ UNCHANGED <<file, dirs, args, pc, caller, slack_tokens, idx, results,
                   calls, picked, invoked>>

\* The empty alias: break, the abort or the save question, and the return to
\* main (which exits) or to upload_to_slack (which returns [] or starts the loop)
PromptDone(raw, answer, ioOk) ==
    /\ pc = "prompt"
    /\ Strip(raw) = <<>>
    /\ file' = FileAfterSetup(file, tokens, answer, ioOk)
    /\ IF caller = "upload_to_slack" /\ tokens /= EmptyDict
       THEN /\ pc' = "uploading"
            /\ slack_tokens' = tokens
            /\ Running
            /\ UNCHANGED <<caller, tokens, idx, results, calls, picked>>
       ELSE Exit(0, "")
    /\ UNCHANGED <<dirs, args, invoked>>

\* prompt_for_slack_token(add_multiple=False), called by main for --setup-slack
PromptSingle(raw, token, answer, ioOk) ==
    /\ pc = "prompt_single"
    /\ file' = FileAfterSetup(
                    file,
                    IF token = "" THEN EmptyDict
                    ELSE DictSet(EmptyDict, SingleAlias(raw), token),
                    answer, ioOk)
    /\ Exit(0, "")
    /\ UNCHANGED <<dirs, args, invoked>>

-----------------------------------------------------------------------------
(* upload_to_slack *)

\* Faulty variant: any response that came back counts as a success
AttemptResult_AnyResponse(alias, outcome) ==
    <<alias, outcome.kind \in {"ok", "not_ok"}>>

\* What the attempt appends to results
AttemptResult(alias, outcome) == <<alias, outcome.kind = "ok">>

\* The file after one attempt: only the SlackApiError handler touches it
FileAfterAttempt(f, alias, outcome, ioOk) ==
    IF outcome.kind = "SlackApiError" /\ outcome.error \in DeadCredentialErrors
    THEN RemoveInvalidToken(f, alias, ioOk)
    ELSE f

\* Whether users_setPhoto was called: open(image_path) failing comes first
CallIssued(outcome) == outcome.kind /= "IOError"

\* main calls upload_to_slack(result_path, args.profiles): token resolution
UploadBegin ==
    /\ pc = "upload"
    /\ invoked' = Append(invoked, "upload_to_slack")
    /\ LET resolved == GetSlackTokens(file, env, args.profiles)
       IN  IF resolved = EmptyDict
           THEN /\ pc' = "prompt"
                /\ caller' = "upload_to_slack"
                /\ UNCHANGED slack_tokens
           ELSE /\ pc' = "uploading"
                /\ slack_tokens' = resolved
                /\ UNCHANGED caller
    /\ Running
    /\ UNCHANGED <<file, dirs, args, tokens, idx, results, calls, picked>>

\* One iteration of "for alias, token in slack_tokens.items()"
UploadAttempt(outcome, ioOk) ==
    /\ pc = "uploading"
    /\ idx < Len(slack_tokens)
    /\ LET alias == slack_tokens[idx + 1].key
           token == slack_tokens[idx + 1].value
       IN  /\ calls' = IF CallIssued(outcome)
                       THEN Append(calls, <<alias, token>>) ELSE calls
           /\ results' = Append(results, AttemptResult(alias, outcome))
           /\ file' = FileAfterAttempt(file, alias, outcome, ioOk)
    /\ idx' = idx + 1
    /\ Running
    /\ UNCHANGED <<dirs, args, pc, caller, tokens, slack_tokens, picked, invoked>>

\* Faulty variant: a batch with a failed upload ends the run with status 1
UploadReturn_FailsOnFailure ==
    /\ pc = "uploading"
    /\ idx = Len(slack_tokens)
    /\ IF \E i \in DOMAIN results : ~results[i][2]
       THEN Exit(1, "Exception")
       ELSE Exit(0, "")
    /\ UNCHANGED <<file, dirs, args, invoked>>

\* The loop is over: the summary, return results, and main falls off its end
UploadReturn ==
    /\ pc = "uploading"
    /\ idx = Len(slack_tokens)
    /\ Exit(0, "")
    /\ UNCHANGED <<file, dirs, args, invoked>>

-----------------------------------------------------------------------------
(* main *)

\* A new process: argument parsing, the management flags, os.makedirs(output_dir)
Main(a, env_token, mkdirOk) ==
    /\ pc = "idle"
    /\ args' = a
    /\ IF a.setup_slack \/ a.add_profiles
       THEN /\ pc' = IF a.setup_slack THEN "prompt_single" ELSE "prompt"
            /\ invoked' = <<"prompt_for_slack_token">>
            /\ env' = env_token
            /\ exitCode' = -1
            /\ error' = ""
            /\ UNCHANGED <<caller, tokens, slack_tokens, idx, results, calls, picked>>
       ELSE IF a.list_profiles
       THEN /\ invoked' = <<"get_slack_tokens">>
            /\ Exit(0, "")
       ELSE IF mkdirOk
       THEN /\ pc' = "pick_foreground"
            /\ invoked' = <<>>
            /\ env' = env_token
            /\ exitCode' = -1
            /\ error' = ""
            /\ UNCHANGED <<caller, tokens, slack_tokens, idx, results, calls, picked>>
       ELSE /\ invoked' = <<>>
            /\ Exit(1, "OSError")
    /\ UNCHANGED <<file, dirs>>

\* get_random_image(folder) inside main's try: the folder is created when
\* missing, a path is chosen, or FileNotFoundError ends the run with status 1
Pick(here, folder, next) ==
    /\ pc = here
    /\ invoked' = Append(invoked, "get_random_image")
    /\ dirs' = [dirs EXCEPT ![folder] = DirAfterPick(@)]
    /\ IF PickChoices(dirs[folder]) = {}
       THEN Exit(1, "FileNotFoundError")
       ELSE /\ \E f \in PickChoices(dirs[folder]) :
                    picked' = [picked EXCEPT ![folder] = f]
            /\ pc' = next
            /\ Running
            /\ UNCHANGED <<caller, tokens, slack_tokens, idx, results, calls>>
    /\ UNCHANGED <<file, args>>

\* foreground_image = get_random_image(args.foreground)
PickForeground == Pick("pick_foreground", "foreground", "pick_background")

\* background_image = get_random_image(args.background)
PickBackground == Pick("pick_background", "background", "layer_images")

\* layer_images(...) returns or raises; without --upload main is done
LayerImages(exc) ==
    /\ pc = "layer_images"
    /\ invoked' = Append(invoked, "layer_images")
    /\ IF exc /= ""
       THEN Exit(1, exc)
       ELSE IF args.upload
       THEN /\ pc' = "upload"
            /\ Running
            /\ UNCHANGED <<caller, tokens, slack_tokens, idx, results, calls, picked>>
       ELSE Exit(0, "")
    /\ UNCHANGED <<file, dirs, args>>

\* save_slack_tokens(token, alias) called with a single token
SaveSingle(alias, token, ioOk) ==
    /\ pc = "idle"
    /\ file' = SaveSlackTokens(file, StrArg(token), alias, ioOk)
    /\ UNCHANGED <<dirs, env, args, pc, caller, tokens, slack_tokens, idx,
                   results, calls, picked, invoked, error, exitCode>>

-----------------------------------------------------------------------------
(* Specifications *)

InitLocals ==
    /\ env = ""
    /\ args = NoArgs
    /\ pc = "idle"
    /\ caller = "main"
    /\ tokens = EmptyDict
    /\ slack_tokens = EmptyDict
    /\ idx = 0
    /\ results = <<>>
    /\ calls = <<>>
    /\ picked = NothingPicked
    /\ invoked = <<>>
    /\ error = ""
    /\ exitCode = -1

AssetDir == [exists |-> TRUE, entries |-> {<<"a">> \o Str_png, <<"p", "n", "g">>}]

\* No config file yet; each asset folder holds one image
Init ==
    /\ file = NoFile
    /\ dirs = [foreground |-> AssetDir, background |-> AssetDir]
    /\ InitLocals

\* No config file yet; the asset folders are in any state
InitMain ==
    /\ file = NoFile
    /\ dirs \in [{"foreground", "background"} -> DirStates]
    /\ InitLocals

NextOver(U) ==
    \/ \E a \in U.argv, e \in U.envs, mk \in BOOLEAN : Main(a, e, mk)
    \/ \E raw \in U.aliases, t \in U.tokens : PromptPair(raw, t)
    \/ \E raw \in U.aliases, ans \in U.answers, io \in BOOLEAN : PromptDone(raw, ans, io)
    \/ \E raw \in U.aliases, t \in U.tokens, ans \in U.answers, io \in BOOLEAN :
            PromptSingle(raw, t, ans, io)
    \/ PickForeground
    \/ PickBackground
    \/ \E exc \in {"", "FileNotFoundError", "Exception"} : LayerImages(exc)
    \/ UploadBegin
    \/ \E o \in Outcomes, io \in BOOLEAN : UploadAttempt(o, io)
    \/ UploadReturn

\* save_slack_tokens called directly in its single-token form, which main
\* never does
SaveCalls(U) ==
    \E al \in {Strip(r) : r \in U.aliases}, t \in U.tokens \ {""}, io \in BOOLEAN :
        SaveSingle(al, t, io)

Next == NextOver(UploadInputs)

NextStore == NextOver(StoreInputs) \/ SaveCalls(StoreInputs)

NextMain == NextOver(MainInputs)

\* The uploader
Spec == Init /\ [][Next]_vars

\* The credential store, with save_slack_tokens also called on its own
SpecStore == Init /\ [][NextStore]_vars

\* main and the asset folders
SpecMain == InitMain /\ [][NextMain]_vars

-----------------------------------------------------------------------------
(* Properties *)

Range(q) == {q[i] : i \in DOMAIN q}

StoredProfiles(f) ==
    IF FileExists(f) /\ "profiles" \in DOMAIN LoadConfig(f)
    THEN LoadConfig(f).profiles ELSE EmptyDict

StoredAliases(f) == Range(DictKeys(StoredProfiles(f)))

StoredToken(f, alias) == DictGet(StoredProfiles(f), alias).token

DefaultSet(f) == FileExists(f) /\ HasDefault(LoadConfig(f))

\* The alias whose attempt comes next in the batch, and the token it is made with
CurrentAlias == slack_tokens[idx + 1].key
CurrentToken == slack_tokens[idx + 1].value

\* The upload attempts are over and upload_to_slack is about to return
BatchOver == pc = "uploading" /\ idx = Len(slack_tokens)

\* C1: when upload is called with a non-empty --profiles list, every
\* users_setPhoto call of the batch is made for an alias of that list, and
\* with exactly 'work' and 'home' stored and ['work'] requested the batch
\* that starts holds exactly one attempt.
C1_OnlyRequestedAliasesCalled ==
    (pc = "uploading" /\ args.profiles /= <<>>) =>
        /\ \A i \in DOMAIN calls : calls[i][1] \in Range(args.profiles)
        /\ (/\ idx = 0
            /\ StoredAliases(file) = {Str_work, Str_home}
            /\ args.profiles = <<Str_work>>) => Len(slack_tokens) = 1

\* An error the API reports with a code of the dead-credential set, by a
\* response that is not ok or by a SlackApiError
DeadCredentialReport(o) ==
    o.kind \in {"not_ok", "SlackApiError"} /\ o.error \in DeadCredentialErrors

\* C2: whenever an upload attempt ends in an API-reported error with a
\* dead-credential code, however the API reports it, the alias has no entry
\* in the config file once the attempt is over.
C2_DeadCredentialRemoved ==
    [][\A o \in Outcomes, io \in BOOLEAN :
          (DeadCredentialReport(o) /\ UploadAttempt(o, io))
              => CurrentAlias \notin StoredAliases(file')]_vars

\* The results so far are those of the first idx resolved aliases, in order,
\* and a success is recorded only where the call was issued
C3_ResultsFollowTokens ==
    pc = "uploading" =>
        /\ idx <= Len(slack_tokens)
        /\ Len(results) = idx
        /\ \A i \in 1..idx :
              /\ results[i][1] = slack_tokens[i].key
              /\ results[i][2] =>
                    <<slack_tokens[i].key, slack_tokens[i].value>> \in Range(calls)
        /\ \A i, j \in DOMAIN slack_tokens :
              slack_tokens[i].key = slack_tokens[j].key => i = j

\* An attempt records success exactly when the upload was acknowledged, keeps
\* the batch going whatever its outcome, and the batch ends only after the
\* last resolved alias
C3_AttemptStep ==
    /\ \A o \in Outcomes, io \in BOOLEAN :
          UploadAttempt(o, io) =>
              /\ results' = Append(results, <<CurrentAlias, o.kind = "ok">>)
              /\ pc' = "uploading"
              /\ slack_tokens' = slack_tokens
    /\ (pc = "uploading" /\ pc' /= "uploading") =>
          (idx = Len(slack_tokens) /\ Len(results) = Len(slack_tokens))

C10_OnlySentTokenRemoved ==
    [][pc = "uploading" =>
          \A a \in StoredAliases(file) \ StoredAliases(file') :
              a = CurrentAlias /\ StoredToken(file, a) = CurrentToken]_vars

\* default_alias, when set, names a stored profile
DefaultNamesProfile(f) ==
    DefaultSet(f) => LoadConfig(f).default \in StoredAliases(f)

\* C4 as stated: in every reachable state of the store, a default_alias that
\* is set names an alias present in profiles.
C4_DefaultAlwaysNamesProfile == DefaultNamesProfile(file)

\* C4 as amended: no save leaves default_alias naming a missing profile; the
\* reference ceases to name a stored profile only in an upload attempt whose
\* cleanup removes exactly the default alias's own entry and leaves the
\* default_alias field as it was.
C4_DanglingOnlyByCleanup ==
    [][(DefaultNamesProfile(file) /\ ~DefaultNamesProfile(file')) =>
          /\ pc = "uploading"
          /\ DefaultSet(file) /\ DefaultSet(file')
          /\ LoadConfig(file').default = LoadConfig(file).default
          /\ CurrentAlias = LoadConfig(file).default
          /\ StoredAliases(file') = StoredAliases(file) \ {CurrentAlias}]_vars

\* C4 witness: saves have stored two profiles and elected a default, and a
\* cleanup has then removed the default's entry
C4_Witness ==
    /\ DefaultSet(file)
    /\ LoadConfig(file).default \notin StoredAliases(file)
    /\ StoredAliases(file) /= {}
    /\ pc = "idle"

\* A step of save_slack_tokens that changes the file: outside the upload
\* loop nothing else writes it
SaveStep == pc \in {"idle", "prompt", "prompt_single"} /\ file' /= file

\* The first part of C5: the store had no profile and the save left exactly
\* one, whose alias is now the default
FirstSaveElects ==
    (StoredAliases(file) = {} /\ Cardinality(StoredAliases(file')) = 1) =>
        (DefaultSet(file') /\ StoredAliases(file') = {LoadConfig(file').default})

\* C5 as stated: the first save into an empty or missing store with exactly
\* one profile makes that profile's alias the default, and once a default is
\* set no later save changes it.
C5_DefaultSetOnceBySaves ==
    [][SaveStep =>
          /\ FirstSaveElects
          /\ DefaultSet(file) =>
                (DefaultSet(file') /\ LoadConfig(file').default = LoadConfig(file).default)]_vars

\* C5 as amended: the first save with exactly one profile into a store that
\* has no profile and no default_alias makes that profile's alias the
\* default; once a default is set and names a stored profile, no later save
\* changes it.
C5_DefaultKeptWhileStored ==
    [][SaveStep =>
          /\ ~DefaultSet(file) => FirstSaveElects
          /\ (DefaultSet(file) /\ DefaultNamesProfile(file)) =>
                (DefaultSet(file') /\ LoadConfig(file').default = LoadConfig(file).default)]_vars

\* C5 witness: a second and a third profile were saved after the default
\* was elected, and the default is still the first one
C5_Witness ==
    /\ DefaultSet(file)
    /\ Len(StoredProfiles(file)) = 3
    /\ LoadConfig(file).default = StoredProfiles(file)[1].key
    /\ StoredProfiles(file)[1].value.token /= StoredProfiles(file)[2].value.token

\* C6: an upload attempt that changes the config file removes the attempted
\* alias's entry and nothing else: the other profiles keep their order and
\* tokens, default_alias stays set or unset as it was, with the same value,
\* also when it names the removed alias; and resolving all tokens from the
\* file afterwards yields exactly the remaining profiles.
C6_CleanupRemovesOnlyItsEntry ==
    [][(pc = "uploading" /\ file' /= file) =>
          /\ FileExists(file) /\ FileExists(file')
          /\ CurrentAlias \in StoredAliases(file)
          /\ StoredAliases(file') = StoredAliases(file) \ {CurrentAlias}
          /\ \A i, j \in DOMAIN StoredProfiles(file) :
                (i < j /\ StoredProfiles(file)[i].key /= CurrentAlias
                       /\ StoredProfiles(file)[j].key /= CurrentAlias) =>
                    \E k, l \in DOMAIN StoredProfiles(file') :
                        /\ k < l
                        /\ StoredProfiles(file')[k] = StoredProfiles(file)[i]
                        /\ StoredProfiles(file')[l] = StoredProfiles(file)[j]
          /\ \A a \in StoredAliases(file') : StoredToken(file', a) = StoredToken(file, a)
          /\ DOMAIN LoadConfig(file') = DOMAIN LoadConfig(file)
          /\ DefaultSet(file) => LoadConfig(file').default = LoadConfig(file).default
          /\ LET resolved == GetSlackTokens(file', "", <<>>)
             IN  /\ Len(resolved) = Cardinality(StoredAliases(file'))
                 /\ Range(DictKeys(resolved)) = StoredAliases(file')
                 /\ \A a \in StoredAliases(file') :
                        DictGet(resolved, a) = StoredToken(file, a)]_vars

\* C6 witness: in a batch, the cleanup has removed the default alias's entry
\* while another profile remains
C6_Witness ==
    /\ pc = "uploading"
    /\ idx >= 1
    /\ DefaultSet(file)
    /\ LoadConfig(file).default = slack_tokens[idx].key
    /\ LoadConfig(file).default \notin StoredAliases(file)
    /\ StoredAliases(file) /= {}

\* The multi-alias loop never collects an empty alias: an empty alias ends it
C7_NoEmptyAliasCollected ==
    pc = "prompt" => \A i \in DOMAIN tokens : tokens[i].key /= <<>>

\* A setup that has collected no token leaves the file alone, and so does
\* every turn of the loop
C7_AbortStep ==
    /\ (pc = "prompt" /\ tokens = EmptyDict /\ pc' /= "prompt") => file' = file
    /\ (pc = "prompt" /\ pc' = "prompt") => file' = file
    /\ \A raw \in StoreInputs.aliases, ans \in StoreInputs.answers, io \in BOOLEAN :
          PromptSingle(raw, "", ans, io) => file' = file

\* C7: in the multi-alias setup, prompting stops at the first empty alias;
\* in either setup flow, when no token was collected the setup ends without
\* saving, and the config file is neither created nor modified.
C7_EmptySetupWritesNothing == []C7_NoEmptyAliasCollected /\ [][C7_AbortStep]_vars

\* C7 witness: --add-profiles has ended with status 0 and there is still no
\* config file
C7_Witness ==
    /\ pc = "idle"
    /\ exitCode = 0
    /\ args.add_profiles /\ ~args.setup_slack
    /\ file = NoFile

ManagementRun(a) == a.setup_slack \/ a.add_profiles \/ a.list_profiles

PipelineCalls == <<"get_random_image", "get_random_image", "layer_images">>

\* What a finished run shows: its command line, its status, the exception
\* that ended it and the functions main called
C8_FinishedRun ==
    (pc = "idle" /\ exitCode /= -1) =>
        /\ exitCode \in {0, 1}
        /\ exitCode = 0 <=> error = ""
        /\ ManagementRun(args) =>
              (exitCode = 0 /\ Len(invoked) = 1 /\ invoked[1] \notin Range(PipelineCalls))
        /\ (~ManagementRun(args) /\ exitCode = 0) =>
              invoked = IF args.upload
                        THEN Append(PipelineCalls, "upload_to_slack")
                        ELSE PipelineCalls
        /\ exitCode = 1 =>
              /\ "upload_to_slack" \notin Range(invoked)
              /\ invoked = SubSeq(PipelineCalls, 1, Len(invoked))
              /\ error = "OSError" <=> invoked = <<>>
              /\ (invoked /= <<>> /\ invoked[Len(invoked)] = "get_random_image") =>
                    error = "FileNotFoundError"

\* A selection that finds no image ends the run with status 1; the upload
\* batch ends the run with status 0 whatever its results
C8_ExitStep ==
    /\ (pc = "pick_foreground" /\ ImageNames \cap dirs.foreground.entries = {}) =>
          (pc' = "idle" /\ exitCode' = 1)
    /\ (pc = "pick_background" /\ ImageNames \cap dirs.background.entries = {}) =>
          (pc' = "idle" /\ exitCode' = 1)
    /\ (pc \in {"uploading", "prompt", "prompt_single"} /\ pc' = "idle") => exitCode' = 0

\* C8: a run ends with status 0 when a setup or listing flag was handled and
\* when the pipeline completes, also when uploads of the batch failed; it
\* ends with status 1 when asset selection fails or an exception escapes the
\* pipeline, and then neither the compositor (when selection failed) nor
\* the uploader has been called.
C8_ExitCodes == []C8_FinishedRun /\ [][C8_ExitStep]_vars

\* C8 witness: the background selection failed, status 1, layer_images and
\* upload_to_slack never called although --upload was given
C8_Witness ==
    /\ pc = "idle"
    /\ exitCode = 1
    /\ args.upload
    /\ invoked = <<"get_random_image", "get_random_image">>

\* get_random_image on the folder the run is about to read
C9_PickStep(here, folder) ==
    pc = here =>
        LET images == ImageNames \cap dirs[folder].entries
        IN  /\ ~dirs[folder].exists =>
                  /\ dirs' = [dirs EXCEPT ![folder] = [exists |-> TRUE, entries |-> {}]]
                  /\ pc' = "idle" /\ error' = "FileNotFoundError"
            /\ (dirs[folder].exists /\ images = {}) =>
                  /\ dirs' = dirs
                  /\ pc' = "idle" /\ error' = "FileNotFoundError"
            /\ images /= {} =>
                  /\ dirs' = dirs
                  /\ pc' \notin {"idle", here}
                  /\ picked'[folder] \in images

\* C9: get_random_image on a missing folder creates it and fails with
\* FileNotFoundError; on an existing folder without a matching file it fails
\* the same way and creates nothing; when matching files exist, the path it
\* returns is one of them.
C9_PickRandom ==
    [][/\ C9_PickStep("pick_foreground", "foreground")
       /\ C9_PickStep("pick_background", "background")]_vars

\* C9 witness: a run has failed on the foreground folder, which exists and is
\* empty, and never looked at the background folder, which is still missing
C9_Witness ==
    /\ pc = "idle"
    /\ error = "FileNotFoundError"
    /\ invoked = <<"get_random_image">>
    /\ dirs.foreground = [exists |-> TRUE, entries |-> {}]
    /\ dirs.background = NoDir

====
